---------------------------- MODULE Spec2Model ----------------------------
(***************************************************************************)
(* Model of emulateX11WindowType.js: the title directive decoder           *)
(* (ManageWindow._parseTitle), the per-window controller (ManageWindow)    *)
(* and the registry / refresh coordinator (EmulateX11WindowType), together *)
(* with the part of the compositor, the GLib main loop and the protocol    *)
(* bridge that the code talks to.                                          *)
(*                                                                         *)
(* Every handler of the source is one action.  A handler runs to           *)
(* completion, including the signal handlers that the compositor invokes   *)
(* synchronously in reaction to the commands the handler issues.           *)
(***************************************************************************)
EXTENDS Integers, Sequences, FiniteSets, TLC

(***************************************************************************)
(* Bounds of the model.                                                    *)
(***************************************************************************)
\* longest title the typing specification (SpecTitle) builds
MaxLen == 4
\* most controllers created on one window handle (addWindow has no limit)
MaxRecs == 2
\* most live subscriptions per compositor-wide event (enable has no limit)
MaxSubs == 2
\* deepest nesting of position-changed handlers before the JavaScript engine
\* gives up with "too much recursion"
MaxDepth == 6
\* the count of triggers absorbed by one pending pass is kept up to this
MaxBurst == 2

(***************************************************************************)
(* JavaScript values.  A title is null or a string; a string is a sequence *)
(* of one-character strings.  A number is an integer or NaN.               *)
(***************************************************************************)
Null == <<"null">>
NaN == <<"NaN">>
Num(n) == <<"int", n>>

Min2(a, b) == IF a <= b THEN a ELSE b
Max2(a, b) == IF a >= b THEN a ELSE b

\* String.prototype.search with a literal pattern: the index (from 0) of the
\* first occurrence of pat in s, or -1.  The method takes one argument.
search(s, pat) ==
    LET n == Len(pat)
        hits == {i \in 0..(Len(s) - n) : SubSeq(s, i + 1, i + n) = pat}
    IN  IF hits = {} THEN -1
        ELSE CHOOSE i \in hits : \A j \in hits : i <= j

\* String.prototype.substring(a, b): both ends clamped to 0..length and
\* swapped when a > b.
substring(s, a, b) ==
    LET ca == Max2(0, Min2(a, Len(s)))
        cb == Max2(0, Min2(b, Len(s)))
    IN  SubSeq(s, Min2(ca, cb) + 1, Max2(ca, cb))

IsSpace(c) == c = " "

\* String.prototype.trim
RECURSIVE trimStart(_)
trimStart(s) ==
    IF s # << >> /\ IsSpace(Head(s)) THEN trimStart(Tail(s)) ELSE s
RECURSIVE trimEnd(_)
trimEnd(s) ==
    IF s # << >> /\ IsSpace(s[Len(s)])
    THEN trimEnd(SubSeq(s, 1, Len(s) - 1)) ELSE s
trim(s) == trimEnd(trimStart(s))

\* String.prototype.split(","): the sequence of tokens; one empty token for
\* the empty string.
RECURSIVE split(_, _)
split(s, sep) ==
    LET p == search(s, <<sep>>)
    IN  IF p = -1 THEN <<s>>
        ELSE <<SubSeq(s, 1, p)>> \o split(SubSeq(s, p + 2, Len(s)), sep)

Digits == <<"0", "1", "2", "3", "4", "5", "6", "7", "8", "9">>
IsDigit(c) == \E d \in 1..10 : Digits[d] = c
DigitVal(c) == (CHOOSE d \in 1..10 : Digits[d] = c) - 1

RECURSIVE digitPrefix(_, _, _)
digitPrefix(s, acc, seen) ==
    IF s # << >> /\ IsDigit(Head(s))
    THEN digitPrefix(Tail(s), 10 * acc + DigitVal(Head(s)), TRUE)
    ELSE IF seen THEN Num(acc) ELSE NaN

\* parseInt(token): leading white space skipped, an optional sign, then the
\* longest prefix of decimal digits; NaN when there is no digit.  It never
\* throws.
parseInt(s) ==
    LET t == trimStart(s)
        neg == t # << >> /\ Head(t) = "-"
        u == IF t # << >> /\ Head(t) \in {"-", "+"} THEN Tail(t) ELSE t
        r == digitPrefix(u, 0, FALSE)
    IN  IF r = NaN THEN NaN ELSE IF neg THEN Num(0 - r[2]) ELSE r

\* coords[i] of a JavaScript array: undefined past the end, and
\* parseInt(undefined) is NaN.
parseIntAt(coords, i) ==
    IF i <= Len(coords) THEN parseInt(coords[i]) ELSE NaN

Lower == <<"a", "b", "c", "d", "e", "f", "g", "h", "i", "j", "k", "l", "m",
           "n", "o", "p", "q", "r", "s", "t", "u", "v", "w", "x", "y", "z">>
Upper == <<"A", "B", "C", "D", "E", "F", "G", "H", "I", "J", "K", "L", "M",
           "N", "O", "P", "Q", "R", "S", "T", "U", "V", "W", "X", "Y", "Z">>
\* String.prototype.toUpperCase, one character at a time
toUpperCase(s) ==
    [i \in 1..Len(s) |->
        IF \E k \in 1..26 : Lower[k] = s[i]
        THEN Upper[CHOOSE k \in 1..26 : Lower[k] = s[i]]
        ELSE s[i]]

(***************************************************************************)
(* The decoded directive: the fields _parseTitle assigns.                  *)
(***************************************************************************)
EmptyDirective ==
    [x |-> Null, y |-> Null, keepAtBottom |-> FALSE, keepAtTop |-> FALSE,
     showInAllDesktops |-> FALSE, hideFromWindowList |-> FALSE,
     fixed |-> FALSE]

\* the switch statement of the flag scan, for one character
flagCaseBT(d, c) ==
    IF c = "B" THEN [d EXCEPT !.keepAtBottom = TRUE]
    ELSE IF c = "T" THEN [d EXCEPT !.keepAtTop = TRUE]
    ELSE IF c = "D" THEN [d EXCEPT !.showInAllDesktops = TRUE]
    ELSE IF c = "H" THEN [d EXCEPT !.hideFromWindowList = TRUE]
    ELSE IF c = "F" THEN [d EXCEPT !.fixed = TRUE]
    ELSE d
flagCase(d, c) ==
    IF c = "B" THEN [d EXCEPT !.keepAtBottom = TRUE, !.keepAtTop = FALSE]
    ELSE IF c = "T" THEN [d EXCEPT !.keepAtTop = TRUE, !.keepAtBottom = FALSE]
    ELSE IF c = "D" THEN [d EXCEPT !.showInAllDesktops = TRUE]
    ELSE IF c = "H" THEN [d EXCEPT !.hideFromWindowList = TRUE]
    ELSE IF c = "F" THEN [d EXCEPT !.fixed = TRUE]
    ELSE d

RECURSIVE flagScan(_, _)
flagScan(d, chars) ==
    IF chars = << >> THEN d
    ELSE flagScan(flagCase(d, Head(chars)), Tail(chars))

\* the trailing-space convention
effectiveTitleLeading(title) ==
    LET n == Len(title)
    IN  IF n > 0 /\ title[1] = " "
        THEN IF n > 1 /\ title[2] = " "
             THEN <<"@", "!", "H", "T", "D">>
             ELSE <<"@", "!", "H">>
        ELSE title
effectiveTitle(title) ==
    LET n == Len(title)
    IN  IF n > 0 /\ title[n] = " "
        THEN IF n > 1 /\ title[n - 1] = " "
             THEN <<"@", "!", "H", "T", "D">>
             ELSE <<"@", "!", "H">>
        ELSE title

\* the coordinate field.  title.search(";", pos) ignores its second
\* argument, so pos2 is the index of the first ";" of the whole title.
coordField(title, pos) ==
    LET pos2 == search(title, <<";">>)
    IN  IF pos2 # -1
        THEN split(trim(substring(title, pos + 2, pos2)), ",")
        ELSE split(trim(substring(title, pos + 2, Len(title))), ",")

\* the fields of the controller after the decoding part of _parseTitle
Decode(title) ==
    IF title = Null THEN EmptyDirective
    ELSE LET t == effectiveTitle(title)
             pos == search(t, <<"@", "!">>)
         IN  IF pos = -1 THEN EmptyDirective
             ELSE LET coords == coordField(t, pos)
                      extra_chars ==
                          toUpperCase(trim(substring(t, pos + 2, Len(t))))
                  IN  flagScan([EmptyDirective EXCEPT
                                   !.x = parseIntAt(coords, 1),
                                   !.y = parseIntAt(coords, 2)],
                               extra_chars)


(***************************************************************************)
(* The windows of the model.  ClientWindows are those for which the        *)
(* protocol bridge answers query_window_belongs_to with true.              *)
(***************************************************************************)
Windows == {"w1", "w2", "w3"}
ClientWindows == {"w1", "w2"}
Workspaces == {1, 2}
Events == {"map", "destroy", "switch-workspace", "showing", "hiding"}

VARIABLES
    \* ---- EmulateX11WindowType (the coordinator)
    isX11,               \* this._isX11
    windowList,          \* this._windowList: a sequence of windows
    enableRefresh,       \* this._enableRefresh
    wayland_client,      \* this._wayland_client: TRUE when set, FALSE when null
    activate_window_ID,  \* this._activate_window_ID: a source id, 0 when unset
    idMap, idDestroy, switchWorkspaceId, showingId, hidingId,
                         \* the five subscription handles, 0 when unset
    \* ---- ManageWindow (the controllers)
    ctl,                 \* per window: the controllers whose handlers are
                         \* connected to it, in connection order
    customJS_ding,       \* per window: TRUE when window.customJS_ding refers
                         \* to the last controller of ctl, FALSE when it is
                         \* undefined or null
    \* ---- GLib main loop
    sources,             \* pending idle sources: [id, checkWorkspace]
    \* ---- compositor and protocol bridge
    alive,               \* the windows the compositor manages
    title, above, minimized, wsOf, pos,
    stack,               \* alive windows, top to bottom
    activeWs,            \* the active workspace
    overview,            \* TRUE while the overview is visible
    connected,           \* per compositor-wide event: the live handler ids
    listHidden,          \* per window: hidden from the window list
    \* ---- host and observation
    host,                \* "enabled" after the host called enable(), else
                         \* "disabled"
    pendingInfo,         \* what was asked of the pending pass since it was
                         \* scheduled
    owed,                \* TRUE from an overview-hiding event that the
                         \* coordinator handled until a pass answers it
    last                 \* what the last step did

progVars == <<isX11, windowList, enableRefresh, wayland_client,
              activate_window_ID, idMap, idDestroy, switchWorkspaceId,
              showingId, hidingId, ctl, customJS_ding>>
envVars == <<sources, alive, title, above, minimized, wsOf, pos, stack,
             activeWs, overview, connected, listHidden>>
obsVars == <<host, pendingInfo, owed, last>>
vars == <<progVars, envVars, obsVars>>

(***************************************************************************)
(* A handler is computed on a record of the whole state (the "world"), so  *)
(* that the handlers it causes synchronously are part of the same step.    *)
(* cmds is the sequence of compositor commands the step has issued, trig   *)
(* the checkWorkspace arguments of its calls of _refreshWindows, threw     *)
(* whether a TypeError ended the coordinator's handler, and overflow       *)
(* whether a nested handler failed with "too much recursion"; arbitrated   *)
(* tells that the step reached the activation arbitration and tab is the   *)
(* tab list it read.                                                       *)
(***************************************************************************)
World ==
    [isX11 |-> isX11, windowList |-> windowList,
     enableRefresh |-> enableRefresh, wayland_client |-> wayland_client,
     activate_window_ID |-> activate_window_ID,
     idMap |-> idMap, idDestroy |-> idDestroy,
     switchWorkspaceId |-> switchWorkspaceId, showingId |-> showingId,
     hidingId |-> hidingId, ctl |-> ctl, customJS_ding |-> customJS_ding,
     sources |-> sources, alive |-> alive, title |-> title, above |-> above,
     minimized |-> minimized, wsOf |-> wsOf, pos |-> pos, stack |-> stack,
     activeWs |-> activeWs, overview |-> overview, connected |-> connected,
     listHidden |-> listHidden,
     cmds |-> << >>, trig |-> << >>, threw |-> FALSE, overflow |-> FALSE,
     arbitrated |-> FALSE, tab |-> << >>]

Commit(S) ==
    /\ isX11' = S.isX11
    /\ windowList' = S.windowList
    /\ enableRefresh' = S.enableRefresh
    /\ wayland_client' = S.wayland_client
    /\ activate_window_ID' = S.activate_window_ID
    /\ idMap' = S.idMap
    /\ idDestroy' = S.idDestroy
    /\ switchWorkspaceId' = S.switchWorkspaceId
    /\ showingId' = S.showingId
    /\ hidingId' = S.hidingId
    /\ ctl' = S.ctl
    /\ customJS_ding' = S.customJS_ding
    /\ sources' = S.sources
    /\ alive' = S.alive
    /\ title' = S.title
    /\ above' = S.above
    /\ minimized' = S.minimized
    /\ wsOf' = S.wsOf
    /\ pos' = S.pos
    /\ stack' = S.stack
    /\ activeWs' = S.activeWs
    /\ overview' = S.overview
    /\ connected' = S.connected
    /\ listHidden' = S.listHidden

\* v is evaluated once and handed to F; the steps of a handler are chained
\* with it, in the order of the source
Bind(v, F(_)) == CHOOSE r \in {F(x) : x \in {v}} : TRUE

Cmd(S, c) == [S EXCEPT !.cmds = Append(@, c)]

Without(seq, w) == SelectSeq(seq, LAMBDA v : v # w)

\* the least handle value that is no member of used; handles are positive
FreshId(used) == CHOOSE i \in 1..(Cardinality(used) + 1) : i \notin used

(***************************************************************************)
(* GLib: idle sources, and the coalescing primitive _refreshWindows.       *)
(***************************************************************************)
SourceIds(S) == {src.id : src \in S.sources}

\* GLib.idle_add: a new pending source that carries the closure's
\* checkWorkspace
idle_add(S, checkWorkspace) ==
    Bind(FreshId(SourceIds(S)), LAMBDA id :
        [S EXCEPT !.sources = @ \cup {[id |-> id, cw |-> checkWorkspace]},
                  !.activate_window_ID = id])

\* GLib.source_remove
source_remove(S, id) ==
    [S EXCEPT !.sources = {src \in @ : src.id # id}]

refreshWindowsAlways(S, checkWorkspace) ==
    Bind([S EXCEPT !.trig = Append(@, checkWorkspace)], LAMBDA S1 :
        idle_add(S1, checkWorkspace))

\* EmulateX11WindowType._refreshWindows, the scheduling part: the deferred
\* closure is IdlePass below
refreshWindows(S, checkWorkspace) ==
    Bind([S EXCEPT !.trig = Append(@, checkWorkspace)], LAMBDA S1 :
        IF S1.activate_window_ID = 0
        THEN idle_add(S1, checkWorkspace)
        ELSE S1)

RECURSIVE refreshWindowsTimes(_, _, _)
\* one call of _refreshWindows per live subscription of an event
refreshWindowsTimes(S, checkWorkspace, n) ==
    IF n = 0 THEN S
    ELSE Bind(refreshWindows(S, checkWorkspace), LAMBDA S1 :
             refreshWindowsTimes(S1, checkWorkspace, n - 1))

(***************************************************************************)
(* The window's control surface, with the controllers' handlers that the   *)
(* compositor runs synchronously when a command changes the window.        *)
(***************************************************************************)
\* Meta.Window.lower: to the bottom of the stack; no signal
lower(S, w) ==
    Bind(Cmd(S, <<"lower", w>>), LAMBDA S1 :
        IF w \in S1.alive
        THEN [S1 EXCEPT !.stack = Append(Without(@, w), w)]
        ELSE S1)

\* Meta.Window.change_workspace
change_workspace(S, w, ws) ==
    [Cmd(S, <<"change_workspace", w>>) EXCEPT !.wsOf[w] = ws]

RECURSIVE unmake_above(_, _)
RECURSIVE emitNotifyAbove(_, _, _)

\* the notify::above handler of controller i of window w
onNotifyAbove(S, w, i) ==
    IF S.ctl[w][i].keepAtBottom /\ S.above[w]
    THEN unmake_above(S, w)
    ELSE S

emitNotifyAbove(S, w, i) ==
    IF i > Len(S.ctl[w]) THEN S
    ELSE Bind(onNotifyAbove(S, w, i), LAMBDA S1 :
             emitNotifyAbove(S1, w, i + 1))

\* Meta.Window.unmake_above: notifies only when the property changes
unmake_above(S, w) ==
    Bind(Cmd(S, <<"unmake_above", w>>), LAMBDA S1 :
        IF S1.above[w]
        THEN Bind([S1 EXCEPT !.above[w] = FALSE], LAMBDA S2 :
                 emitNotifyAbove(S2, w, 1))
        ELSE S1)

\* Meta.Window.make_above: notifies only when the property changes
make_above(S, w) ==
    Bind(Cmd(S, <<"make_above", w>>), LAMBDA S1 :
        IF ~S1.above[w]
        THEN Bind([S1 EXCEPT !.above[w] = TRUE], LAMBDA S2 :
                 emitNotifyAbove(S2, w, 1))
        ELSE S1)

\* the conversion of a JavaScript number to a gint argument
ToInt32(v) == IF v[1] = "int" THEN v[2] ELSE 0

HasPosition(r) == r.x # Null /\ r.y # Null

RECURSIVE move_frame(_, _, _, _, _)
RECURSIVE emitPositionChanged(_, _, _, _)

\* the position-changed handler of controller i of window w
onPositionChanged(S, w, i, depth) ==
    IF S.ctl[w][i].fixed /\ HasPosition(S.ctl[w][i])
    THEN move_frame(S, w, S.ctl[w][i].x, S.ctl[w][i].y, depth)
    ELSE S

emitPositionChanged(S, w, i, depth) ==
    IF i > Len(S.ctl[w]) THEN S
    ELSE Bind(onPositionChanged(S, w, i, depth), LAMBDA S1 :
             emitPositionChanged(S1, w, i + 1, depth))

\* Meta.Window.move_frame: position-changed is emitted only when the frame
\* moves.  A handler nested deeper than MaxDepth fails with "too much
\* recursion"; the exception ends that handler alone, since it is caught
\* where the compositor called into JavaScript.
move_frame(S, w, x, y, depth) ==
    IF depth > MaxDepth THEN [S EXCEPT !.overflow = TRUE]
    ELSE Bind(Cmd(S, <<"move_frame", w, x, y>>), LAMBDA S1 :
             IF S1.pos[w] = <<ToInt32(x), ToInt32(y)>> THEN S1
             ELSE Bind([S1 EXCEPT !.pos[w] = <<ToInt32(x), ToInt32(y)>>],
                       LAMBDA S2 :
                           emitPositionChanged(S2, w, 1, depth + 1)))

\* the raised handler (connect_after) of controller i of window w
onRaised(S, w, i) ==
    IF S.ctl[w][i].keepAtBottom /\ ~S.ctl[w][i].keepAtTop
    THEN lower(S, w)
    ELSE S

RECURSIVE emitRaised(_, _, _)
emitRaised(S, w, i) ==
    IF i > Len(S.ctl[w]) THEN S
    ELSE Bind(onRaised(S, w, i), LAMBDA S1 : emitRaised(S1, w, i + 1))

\* Meta.Window.raise: to the top of the stack, then the raised signal
raise(S, w) ==
    Bind([S EXCEPT !.stack = <<w>> \o Without(@, w)], LAMBDA S1 :
        emitRaised(S1, w, 1))

Subs(S, e) == Cardinality(S.connected[e])

\* the coordinator's overview-hiding handler, once per live subscription
RECURSIVE onHiding(_, _)
onHiding(S, n) ==
    IF n = 0 THEN S
    ELSE Bind(refreshWindows([S EXCEPT !.enableRefresh = TRUE], TRUE),
              LAMBDA S1 : onHiding(S1, n - 1))

\* Main.activateWindow: switches to the window's workspace when it is on
\* another one, raises and focuses the window, and hides the overview
activateWindow(S, w) ==
    Bind(Cmd(S, <<"activate", w>>), LAMBDA S1 :
    Bind(IF S1.wsOf[w] # S1.activeWs
         THEN refreshWindowsTimes([S1 EXCEPT !.activeWs = S1.wsOf[w]],
                                  TRUE, Subs(S1, "switch-workspace"))
         ELSE S1, LAMBDA S2 :
    Bind(raise(S2, w), LAMBDA S3 :
        IF S3.overview
        THEN onHiding([S3 EXCEPT !.overview = FALSE], Subs(S3, "hiding"))
        ELSE S3)))

(***************************************************************************)
(* ManageWindow                                                            *)
(***************************************************************************)
\* the fields of a controller before its first _parseTitle
NewController(client) ==
    [x |-> Null, y |-> Null, keepAtBottom |-> FALSE, keepAtTop |-> FALSE,
     showInAllDesktops |-> FALSE, hideFromWindowList |-> FALSE,
     fixed |-> FALSE, wayland_client |-> client]

WithDirective(r, d) ==
    [r EXCEPT !.x = d.x, !.y = d.y, !.keepAtBottom = d.keepAtBottom,
              !.keepAtTop = d.keepAtTop,
              !.showInAllDesktops = d.showInAllDesktops,
              !.hideFromWindowList = d.hideFromWindowList,
              !.fixed = d.fixed]

\* the part of _parseTitle that follows the decoding, for a title that is
\* not null: old is the controller before the decoding, d the directive
applyDirective(S, w, old, d, first) ==
    Bind(IF old.wayland_client
         THEN [Cmd(S, <<IF d.hideFromWindowList
                        THEN "hide_from_window_list"
                        ELSE "show_in_window_list", w>>)
                 EXCEPT !.listHidden[w] = d.hideFromWindowList]
         ELSE S, LAMBDA S2 :
    Bind(IF first \/ d.keepAtTop # old.keepAtTop
         THEN IF d.keepAtTop THEN make_above(S2, w)
              ELSE unmake_above(S2, w)
         ELSE S2, LAMBDA S3 :
    Bind(IF d.keepAtBottom THEN lower(S3, w) ELSE S3, LAMBDA S4 :
    Bind(IF d.fixed /\ HasPosition(d)
         THEN move_frame(S4, w, d.x, d.y, 1)
         ELSE S4, LAMBDA S5 :
        refreshWindows(S5, TRUE)))))

\* ManageWindow._parseTitle of controller i of window w.  first is TRUE for
\* the call from the constructor, where the previous this._keepAtTop is
\* undefined and so differs from both true and false.
parseTitle(S, w, i, first) ==
    Bind(Decode(S.title[w]), LAMBDA d :
    Bind([S EXCEPT !.ctl[w][i] = WithDirective(@, d)], LAMBDA S1 :
        IF S.title[w] = Null THEN S1
        ELSE applyDirective(S1, w, S.ctl[w][i], d, first)))

\* the notify::title signal: _parseTitle of every connected controller
RECURSIVE emitNotifyTitle(_, _, _)
emitNotifyTitle(S, w, i) ==
    IF i > Len(S.ctl[w]) THEN S
    ELSE Bind(parseTitle(S, w, i, FALSE), LAMBDA S1 :
             emitNotifyTitle(S1, w, i + 1))

\* ManageWindow.refreshState of the controller window.customJS_ding
refreshState(S, w, checkWorkspace) ==
    Bind(IF checkWorkspace /\ S.ctl[w][Len(S.ctl[w])].showInAllDesktops
            /\ S.wsOf[w] # S.activeWs
         THEN change_workspace(S, w, S.activeWs)
         ELSE S, LAMBDA S1 :
        IF S1.ctl[w][Len(S1.ctl[w])].keepAtBottom
        THEN lower(S1, w)
        ELSE S1)

\* ManageWindow.disconnect of the controller window.customJS_ding: its
\* handlers are disconnected first, then the above pin is removed
disconnectKeepAbove(S, w) ==
    [S EXCEPT !.ctl[w] = SubSeq(@, 1, Len(@) - 1)]
disconnect(S, w) ==
    Bind([S EXCEPT !.ctl[w] = SubSeq(@, 1, Len(@) - 1)], LAMBDA S1 :
        IF S.ctl[w][Len(S.ctl[w])].keepAtTop
        THEN unmake_above(S1, w)
        ELSE S1)

(***************************************************************************)
(* EmulateX11WindowType                                                    *)
(***************************************************************************)
\* the handle given to addWindow: a window, or the actor of a window
WindowHandle(w) == [kind |-> "window", win |-> w]
ActorHandle(w) == [kind |-> "actor", win |-> w]
get_meta_window(h) == h.win

\* addWindow once the handle is a window.  The constructor of ManageWindow
\* connects its handlers and decodes the title before customJS_ding is
\* assigned.
addMetaWindow(S, w) ==
    Bind([S EXCEPT !.ctl[w] = Append(@, NewController(S.wayland_client))],
         LAMBDA S1 :
    Bind(parseTitle(S1, w, Len(S1.ctl[w]), TRUE), LAMBDA S2 :
        [S2 EXCEPT !.customJS_ding[w] = TRUE,
                   !.windowList = Append(@, w)]))

\* EmulateX11WindowType.addWindow
addWindow(S, h) ==
    IF S.isX11 THEN S
    ELSE addMetaWindow(S, IF h.kind = "actor" THEN get_meta_window(h)
                          ELSE h.win)

\* EmulateX11WindowType._clearWindow: reading unmanagedID of a null or
\* undefined customJS_ding is a TypeError
clearWindow(S, w) ==
    IF ~S.customJS_ding[w] THEN [S EXCEPT !.threw = TRUE]
    ELSE [disconnect(S, w) EXCEPT !.customJS_ding[w] = FALSE]

\* the handler of the window's unmanaged signal, connected by addWindow
onUnmanaged(S, w) ==
    Bind(clearWindow(S, w), LAMBDA S1 :
        IF S1.threw THEN S
        ELSE [S1 EXCEPT !.windowList = Without(@, w)])

\* the unmanaged signal: one handler per controller that addWindow created
\* and that _clearWindow has not disconnected.  The first handler that
\* succeeds disconnects the handler unmanagedID of the current controller,
\* which is the last one; a handler that throws is logged and the emission
\* goes on.
RECURSIVE emitUnmanaged(_, _, _, _)
emitUnmanaged(S, w, i, n) ==
    IF i > n THEN S
    ELSE IF i = n /\ Len(S.ctl[w]) < n THEN S
    ELSE Bind(onUnmanaged(S, w), LAMBDA S1 :
             emitUnmanaged(S1, w, i + 1, n))

\* EmulateX11WindowType.set_wayland_client
RECURSIVE setClientLoop(_, _)
setClientLoop(S, list) ==
    IF list = << >> THEN S
    ELSE Bind(IF S.customJS_ding[Head(list)]
              THEN [S EXCEPT
                      !.ctl[Head(list)][Len(S.ctl[Head(list)])].wayland_client
                          = S.wayland_client]
              ELSE S, LAMBDA S1 :
             setClientLoop(S1, Tail(list)))
set_wayland_client(S, client) ==
    Bind([S EXCEPT !.wayland_client = client], LAMBDA S1 :
        setClientLoop(S1, S1.windowList))

\* EmulateX11WindowType.enable: five new subscriptions; the handles are
\* overwritten
connect(S, e) == FreshId(S.connected[e])
enable(S) ==
    IF S.isX11 THEN S
    ELSE [S EXCEPT
            !.idMap = connect(S, "map"),
            !.idDestroy = connect(S, "destroy"),
            !.switchWorkspaceId = connect(S, "switch-workspace"),
            !.showingId = connect(S, "showing"),
            !.hidingId = connect(S, "hiding"),
            !.connected = [e \in Events |-> @[e] \cup {connect(S, e)}]]

\* the loop of disable over this._windowList; a TypeError ends disable
RECURSIVE clearAll(_, _)
clearAll(S, list) ==
    IF list = << >> \/ S.threw THEN S
    ELSE Bind(clearWindow(S, Head(list)), LAMBDA S1 :
             clearAll(S1, Tail(list)))

\* disable, from the loop on
disableTeardown(S) ==
    Bind(clearAll(S, S.windowList), LAMBDA S2 :
        IF S2.threw THEN S2
        ELSE [S2 EXCEPT
                !.windowList = << >>,
                !.connected =
                    [e \in Events |->
                        @[e] \ {CASE e = "map" -> S2.idMap
                                  [] e = "destroy" -> S2.idDestroy
                                  [] e = "switch-workspace" ->
                                         S2.switchWorkspaceId
                                  [] e = "showing" -> S2.showingId
                                  [] e = "hiding" -> S2.hidingId}],
                !.idMap = 0, !.idDestroy = 0, !.switchWorkspaceId = 0,
                !.showingId = 0, !.hidingId = 0])

disableNoCancel(S) ==
    IF S.isX11 THEN S ELSE disableTeardown(S)

\* EmulateX11WindowType.disable
disable(S) ==
    IF S.isX11 THEN S
    ELSE Bind(IF S.activate_window_ID # 0
              THEN [source_remove(S, S.activate_window_ID)
                      EXCEPT !.activate_window_ID = 0]
              ELSE S, LAMBDA S1 :
             disableTeardown(S1))

\* the loop of the deferred pass over this._windowList; calling
\* refreshState of a null customJS_ding is a TypeError
RECURSIVE refreshAll(_, _, _)
refreshAll(S, list, checkWorkspace) ==
    IF list = << >> \/ S.threw THEN S
    ELSE Bind(IF S.customJS_ding[Head(list)]
              THEN refreshState(S, Head(list), checkWorkspace)
              ELSE [S EXCEPT !.threw = TRUE], LAMBDA S1 :
             refreshAll(S1, Tail(list), checkWorkspace))

\* global.display.get_tab_list(NORMAL_ALL, active workspace): the windows
\* of the active workspace, top to bottom
get_tab_list_all(S) == S.stack
get_tab_list(S) == SelectSeq(S.stack, LAMBDA w : S.wsOf[w] = S.activeWs)

\* window.customJS_ding._keepAtBottom of a window that has a controller
keepAtBottomOf(S, w) ==
    S.customJS_ding[w] /\ S.ctl[w][Len(S.ctl[w])].keepAtBottom

\* the condition of the first loop of the arbitration
tabCandidateAnyState(S, w) == ~keepAtBottomOf(S, w)
tabCandidate(S, w) == ~keepAtBottomOf(S, w) /\ ~S.minimized[w]

\* the condition of the fallback loop
fallbackCandidate(S, w) == keepAtBottomOf(S, w) /\ ~S.minimized[w]

\* the first element of list that satisfies the loop's condition, or
\* "none"
RECURSIVE firstTab(_, _)
firstTab(S, list) ==
    IF list = << >> THEN "none"
    ELSE IF tabCandidate(S, Head(list)) THEN Head(list)
    ELSE firstTab(S, Tail(list))
RECURSIVE firstFallback(_, _)
firstFallback(S, list) ==
    IF list = << >> THEN "none"
    ELSE IF fallbackCandidate(S, Head(list)) THEN Head(list)
    ELSE firstFallback(S, Tail(list))

\* the activation arbitration of the deferred pass
arbitrate(S) ==
    Bind([S EXCEPT !.arbitrated = TRUE, !.tab = get_tab_list(S)],
         LAMBDA S1 :
    Bind(firstTab(S1, S1.tab), LAMBDA t :
    Bind(firstFallback(S1, S1.windowList), LAMBDA f :
        IF t # "none" THEN activateWindow(S1, t)
        ELSE IF f # "none" THEN activateWindow(S1, f)
        ELSE S1)))

\* the body of the closure while refresh is enabled
enabledPass(S, checkWorkspace) ==
    Bind(refreshAll(S, S.windowList, checkWorkspace), LAMBDA S1 :
        IF ~S1.threw /\ checkWorkspace THEN arbitrate(S1) ELSE S1)

\* the closure that _refreshWindows hands to GLib.idle_add, run for the
\* pending source src.  A closure that throws is logged and its source is
\* removed; this._activate_window_ID is then left as it was.
IdlePass(S, src) ==
    Bind(source_remove(S, src.id), LAMBDA S0 :
    Bind(IF S0.enableRefresh THEN enabledPass(S0, src.cw) ELSE S0,
         LAMBDA S1 :
        IF S1.threw THEN S1
        ELSE [S1 EXCEPT !.activate_window_ID = 0]))

\* the handlers that enable connects, each run once per live subscription
RECURSIVE onMap(_, _, _)
onMap(S, w, n) ==
    IF n = 0 THEN S
    ELSE Bind(IF S.wayland_client /\ w \in ClientWindows
              THEN addWindow(S, WindowHandle(w))
              ELSE S, LAMBDA S1 :
         Bind(refreshWindows(S1, FALSE), LAMBDA S2 : onMap(S2, w, n - 1)))

\* popup: the destroyed window's type is DROPDOWN_MENU or later
onDestroy(S, popup, n) ==
    IF popup THEN S ELSE refreshWindowsTimes(S, TRUE, n)

onSwitchWorkspace(S, n) == refreshWindowsTimes(S, TRUE, n)

onShowing(S, n) ==
    IF n = 0 THEN S ELSE [S EXCEPT !.enableRefresh = FALSE]

(***************************************************************************)
(* Observation of a step: last, pendingInfo, owed and host are history     *)
(* variables; no handler reads them.                                       *)
(***************************************************************************)
NoInfo == [n |-> 0, any |-> FALSE]

Absorb(info, trig) ==
    [n |-> Min2(info.n + Len(trig), MaxBurst),
     any |-> info.any \/ \E i \in 1..Len(trig) : trig[i]]

NoLast ==
    [op |-> "none", cw |-> FALSE, any |-> FALSE, n |-> 0, enabled |-> FALSE,
     overview |-> FALSE, host |-> "disabled", threw |-> FALSE,
     arbitrated |-> FALSE, tab |-> << >>, activated |-> {}, kinds |-> {},
     hadPending |-> FALSE, afterDisable |-> FALSE,
     ws |-> 0, triggered |-> FALSE, overflow |-> FALSE]

Kinds(cmds) == {cmds[i][1] : i \in 1..Len(cmds)}
Activated(cmds) ==
    {cmds[i][2] : i \in {j \in 1..Len(cmds) : cmds[j][1] = "activate"}}

\* a step that is no deferred pass, no enable and no disable
ObserveOther(S) ==
    /\ last' = [NoLast EXCEPT !.op = "other"]
    /\ pendingInfo' = IF S.sources = {} THEN NoInfo
                      ELSE Absorb(pendingInfo, S.trig)
    /\ host' = host

(***************************************************************************)
(* The actions: the host's calls, the compositor's events, and the main    *)
(* loop running a pending idle source.  The handler's result is computed   *)
(* once, as the one element of a set.                                      *)
(***************************************************************************)
Enable ==
    /\ host = "disabled"
    /\ \A e \in Events : Cardinality(connected[e]) < MaxSubs
    /\ \E S \in {enable(World)} :
           /\ Commit(S)
           /\ last' = [NoLast EXCEPT !.op = "enable",
                                     !.afterDisable = (last.op = "disable")]
           /\ pendingInfo' = pendingInfo
           /\ host' = "enabled"
           /\ owed' = owed

Disable ==
    /\ host = "enabled"
    /\ \E S \in {disable(World)} :
           /\ Commit(S)
           /\ last' = [NoLast EXCEPT !.op = "disable", !.threw = S.threw,
                                     !.hadPending = (sources # {}),
                                     !.overview = overview]
           /\ pendingInfo' = IF S.sources = {} THEN NoInfo ELSE pendingInfo
           /\ host' = "disabled"
           /\ owed' = FALSE

AddWindow(h) ==
    /\ h.win \in alive \cap ClientWindows
    /\ Len(ctl[h.win]) < MaxRecs
    /\ \E S \in {addWindow(World, h)} :
           Commit(S) /\ ObserveOther(S) /\ owed' = owed

SetWaylandClient(client) ==
    /\ client # wayland_client
    /\ \E S \in {set_wayland_client(World, client)} :
           Commit(S) /\ ObserveOther(S) /\ owed' = owed

MapEvent(w) ==
    /\ w \in alive
    /\ Len(ctl[w]) + (IF wayland_client /\ w \in ClientWindows /\ ~isX11
                      THEN Cardinality(connected["map"]) ELSE 0) <= MaxRecs
    /\ \E S \in {onMap(World, w, Cardinality(connected["map"]))} :
           Commit(S) /\ ObserveOther(S) /\ owed' = owed

DestroyEvent(popup) ==
    \E S \in {onDestroy(World, popup, Cardinality(connected["destroy"]))} :
        Commit(S) /\ ObserveOther(S) /\ owed' = owed

SwitchWorkspace(ws) ==
    /\ ws # activeWs
    /\ \E S \in {onSwitchWorkspace(
                    [World EXCEPT !.activeWs = ws],
                    Cardinality(connected["switch-workspace"]))} :
           Commit(S) /\ ObserveOther(S) /\ owed' = owed

OverviewShowing ==
    /\ ~overview
    /\ \E S \in {onShowing([World EXCEPT !.overview = TRUE],
                           Cardinality(connected["showing"]))} :
           Commit(S) /\ ObserveOther(S) /\ owed' = FALSE

OverviewHiding ==
    /\ overview
    /\ \E S \in {onHiding([World EXCEPT !.overview = FALSE],
                          Cardinality(connected["hiding"]))} :
           /\ Commit(S) /\ ObserveOther(S)
           /\ owed' = (connected["hiding"] # {})

\* the compositor unmanages the window: the unmanaged signal, then the
\* window is gone
unmanage(S, w) ==
    Bind(emitUnmanaged(S, w, 1, Len(S.ctl[w])), LAMBDA S1 :
        [S1 EXCEPT !.alive = @ \ {w}, !.stack = Without(@, w)])

Unmanaged(w) ==
    /\ w \in alive
    /\ \E S \in {unmanage(World, w)} :
           Commit(S) /\ ObserveOther(S) /\ owed' = owed

TitleChanged(w, t) ==
    /\ w \in alive
    /\ t # title[w]
    /\ \E S \in {emitNotifyTitle([World EXCEPT !.title[w] = t], w, 1)} :
           Commit(S) /\ ObserveOther(S) /\ owed' = owed

IdleRun ==
    \E src \in sources :
        \E S \in {IdlePass(World, src)} :
            /\ Commit(S)
            /\ last' = [NoLast EXCEPT
                          !.op = "idle", !.cw = src.cw,
                          !.any = pendingInfo.any, !.n = pendingInfo.n,
                          !.enabled = enableRefresh, !.overview = overview,
                          !.host = host, !.threw = S.threw,
                          !.arbitrated = S.arbitrated, !.tab = S.tab,
                          !.activated = Activated(S.cmds),
                          !.kinds = Kinds(S.cmds),
                          !.ws = activeWs,
                          !.triggered = (S.trig # << >>)]
            /\ pendingInfo' = IF S.sources = {} THEN NoInfo
                              ELSE Absorb(NoInfo, S.trig)
            /\ host' = host
            /\ owed' = IF src.cw /\ enableRefresh /\ ~S.threw
                       THEN FALSE ELSE owed

(***************************************************************************)
(* The coordinator specification: a window of the trusted client and a     *)
(* foreign window, a few titles.                                           *)
(***************************************************************************)
Titles ==
    {Null, <<"@", "!", "B">>, <<"@", "!", "T", "D">>}

InitProgram ==
    /\ windowList = << >>
    /\ enableRefresh = TRUE
    /\ wayland_client = FALSE
    /\ activate_window_ID = 0
    /\ idMap = 0 /\ idDestroy = 0 /\ switchWorkspaceId = 0
    /\ showingId = 0 /\ hidingId = 0
    /\ ctl = [w \in Windows |-> << >>]
    /\ customJS_ding = [w \in Windows |-> FALSE]

InitObservation ==
    /\ host = "disabled"
    /\ pendingInfo = NoInfo
    /\ owed = FALSE
    /\ last = NoLast

\* the compositor, the main loop and the bridge before the program acts
InitEnvironment ==
    /\ sources = {}
    /\ title = [w \in Windows |-> Null]
    /\ above = [w \in Windows |-> FALSE]
    /\ wsOf = [w \in Windows |-> 1]
    /\ pos = [w \in Windows |-> <<0, 0>>]
    /\ activeWs = 1
    /\ overview = FALSE
    /\ connected = [e \in Events |-> {}]
    /\ listHidden = [w \in Windows |-> FALSE]

Init ==
    /\ InitProgram
    /\ InitObservation
    /\ InitEnvironment
    /\ isX11 \in BOOLEAN
    /\ alive = {"w1", "w3"}
    /\ stack = <<"w1", "w3">>
    /\ minimized = [w \in Windows |-> FALSE]

Next ==
    \/ Enable
    \/ Disable
    \/ \E w \in Windows : AddWindow(WindowHandle(w))
    \/ \E w \in Windows : AddWindow(ActorHandle(w))
    \/ \E client \in BOOLEAN : SetWaylandClient(client)
    \/ \E w \in Windows : MapEvent(w)
    \/ \E popup \in BOOLEAN : DestroyEvent(popup)
    \/ \E ws \in Workspaces : SwitchWorkspace(ws)
    \/ OverviewShowing
    \/ OverviewHiding
    \/ \E w \in Windows : Unmanaged(w)
    \/ \E w \in ClientWindows, t \in Titles : TitleChanged(w, t)
    \/ IdleRun

Spec == Init /\ [][Next]_vars

(***************************************************************************)
(* Properties of the coordinator, checked under Spec.                      *)
(***************************************************************************)
Count(seq, w) == Len(SelectSeq(seq, LAMBDA v : v = w))

\* C1: at most one deferred callback is pending at any time, and the
\* triggers issued between the scheduling of a callback and its run are
\* answered by that one pass: when it has run, no callback is left pending.
C1_SinglePendingPass ==
    /\ Cardinality(sources) <= 1
    /\ last.op = "idle" => (sources = {} /\ last.n >= 1)

\* a pass has just run that had absorbed two or more triggers
C1_Witness == last.op = "idle" /\ last.n >= 2

\* C2: the checkWorkspace a deferred pass runs with is the logical OR of the
\* checkWorkspace arguments of all triggers issued since it was scheduled.
C2_PassUsesOrOfTriggers == last.op = "idle" => last.cw = last.any

\* C4: after a disable() that ran to its end, the managed-window list, the
\* pending refresh handle, the five subscription handles and the
\* enableRefresh gate have the values the constructor gave them.
C4_DisableRestoresConstructorState ==
    (last.op = "disable" /\ ~last.threw /\ ~isX11) =>
        /\ windowList = << >>
        /\ activate_window_ID = 0
        /\ idMap = 0 /\ idDestroy = 0 /\ switchWorkspaceId = 0
        /\ showingId = 0 /\ hidingId = 0
        /\ enableRefresh = TRUE

\* C5: after disable() followed immediately by enable(), the registry holds
\* no record and each of the five compositor-wide events has exactly one
\* live subscription.
C5_ReEnableIsClean ==
    (last.op = "enable" /\ last.afterDisable /\ ~isX11) =>
        /\ windowList = << >>
        /\ \A e \in Events : Cardinality(connected[e]) = 1

\* C6: a window handle appears at most once in the managed-window list and
\* at most one controller holds event subscriptions on it.
C6_OneLiveRecordPerWindow ==
    \A w \in Windows : Count(windowList, w) <= 1 /\ Len(ctl[w]) <= 1

\* C7: when disable() is over no deferred callback is pending, so that a
\* pass can run afterwards only if a later trigger schedules it.
C7_DisableCancelsPending ==
    last.op = "disable" => (sources = {} /\ pendingInfo = NoInfo)

\* disable() has just been called while a deferred callback was pending
C7_Witness == last.op = "disable" /\ last.hadPending

\* C8: a deferred pass that runs while the overview is showing issues no
\* lower, change-workspace or activate command (stated for the passes that
\* run while the host has the coordinator enabled).
C8_NoCommandsWhileOverview ==
    (last.op = "idle" /\ last.overview /\ last.host = "enabled") =>
        last.kinds \cap {"lower", "change_workspace", "activate"} = {}

\* C9: an overview-hiding event that the coordinator handled is answered by
\* a pass with checkWorkspace = true: until such a pass has run with refresh
\* enabled (or disable() or the next overview-showing event intervened), one
\* is pending.
C9_HidingIsAnswered ==
    owed => \E src \in sources : src.cw

\* C12: after the reaction to a title change, whatever the titles were
\* (null ones and ones that drop T included), the window is always-above
\* exactly when the stored directive has pinTop (stated for a window with
\* one record and one controller; nothing else changes the above state).
C12_AboveIffPinTop ==
    \A w \in Windows :
        (Count(windowList, w) = 1 /\ Len(ctl[w]) = 1 /\ customJS_ding[w])
            => (above[w] <=> ctl[w][1].keepAtTop)

\* C13: a window whose record was torn down (by the unmanaged event or by
\* disable()) has no controller subscribed to it any more, and when it is
\* still there it is not always-above.
C13_TeardownReleasesAll ==
    \A w \in Windows :
        ~customJS_ding[w] =>
            /\ ctl[w] = << >>
            /\ w \in alive => ~above[w]

\* C16: when a deferred pass has run to its end the pending handle is
\* cleared unless a new callback is pending, and a trigger raised while the
\* pass was executing has a callback pending for it (stated for the passes
\* that run while the host has the coordinator enabled).
C16_NoTriggerLost ==
    (last.op = "idle" /\ ~last.threw /\ last.host = "enabled") =>
        /\ sources = {} => activate_window_ID = 0
        /\ last.triggered => sources # {}

\* C19: neither a deferred pass nor disable() comes upon a window of the
\* managed-window list whose record is null: none ends with the TypeError
\* of a call on a null customJS_ding.
C19_IterationMeetsLiveRecords ==
    last.op \in {"idle", "disable"} => ~last.threw


(***************************************************************************)
(* The arbitration specification: three windows in any combination of      *)
(* minimized states, each client window added at most once, the            *)
(* coordinator enabled or not, titles and the active workspace changing.   *)
(***************************************************************************)
InitArb ==
    /\ InitProgram
    /\ InitObservation
    /\ InitEnvironment
    /\ isX11 = FALSE
    /\ alive = Windows
    /\ stack = <<"w1", "w2", "w3">>
    /\ minimized \in [Windows -> BOOLEAN]

NextArb ==
    \/ Enable
    \/ \E w \in Windows : ctl[w] = << >> /\ AddWindow(WindowHandle(w))
    \/ \E ws \in Workspaces : SwitchWorkspace(ws)
    \/ \E w \in ClientWindows, t \in Titles : TitleChanged(w, t)
    \/ IdleRun

SpecArb == InitArb /\ [][NextArb]_vars

\* the window has a record and the record is bottom-pinned
Pinned(w) == customJS_ding[w] /\ ctl[w][Len(ctl[w])].keepAtBottom

\* the positions of the tab list read by the last pass whose window is
\* neither minimized nor bottom-pinned
C3_Eligible ==
    {i \in 1..Len(last.tab) :
        ~minimized[last.tab[i]] /\ ~Pinned(last.tab[i])}

\* the managed windows that are bottom-pinned and not minimized
C3_FallbackSet ==
    {w \in Windows :
        Count(windowList, w) > 0 /\ Pinned(w) /\ ~minimized[w]}

\* C3: a pass that runs with checkWorkspace = true and refresh enabled
\* arbitrates, and the arbitration activates exactly the first window of the
\* active workspace's list, top to bottom, that is neither minimized nor
\* bottom-pinned; if there is none, one non-minimized bottom-pinned managed
\* window; if there is none either, nothing.
C3_ActivationArbitration ==
    /\ (last.op = "idle" /\ last.cw /\ last.enabled /\ ~last.threw)
           => last.arbitrated
    /\ (last.op = "idle" /\ last.arbitrated) =>
           IF C3_Eligible # {}
           THEN last.activated =
                    {last.tab[CHOOSE i \in C3_Eligible :
                                  \A j \in C3_Eligible : i <= j]}
           ELSE IF C3_FallbackSet # {}
           THEN \E w \in C3_FallbackSet : last.activated = {w}
           ELSE last.activated = {}

\* a pass has just activated a window that follows a minimized window in
\* the list, which also holds a bottom-pinned window that is not minimized
C3_Witness ==
    /\ last.op = "idle" /\ last.arbitrated
    /\ \E i, j, k \in 1..Len(last.tab) :
          /\ i < j
          /\ minimized[last.tab[i]] /\ ~Pinned(last.tab[i])
          /\ last.activated = {last.tab[j]}
          /\ Pinned(last.tab[k]) /\ ~minimized[last.tab[k]]

\* the window is in the managed-window list and has a record
Managed(w) == Count(windowList, w) > 0 /\ customJS_ding[w]

\* C15: when a pass with checkWorkspace = true has run with refresh enabled,
\* every managed window whose directive has showOnAllWorkspaces is on the
\* active workspace, and the bottom-pinned managed windows were lowered.
C15_PassPinsWorkspace ==
    (last.op = "idle" /\ last.cw /\ last.enabled /\ ~last.threw
        /\ last.host = "enabled") =>
        /\ \A w \in Windows :
              (Managed(w) /\ ctl[w][Len(ctl[w])].showInAllDesktops)
                  => wsOf[w] = activeWs
        /\ (\E w \in Windows : Managed(w) /\ Pinned(w))
              => "lower" \in last.kinds

\* C20 as stated: every window a pass activates is on the workspace that is
\* active when the pass activates it, a bottom-pinned window chosen by the
\* fallback scan included.
C20_ActivatedOnActiveWorkspace ==
    (last.op = "idle" /\ last.host = "enabled") =>
        \A w \in last.activated : wsOf[w] = last.ws

\* C20 amended: every window a pass activates that is not bottom-pinned
\* (it was chosen by the scan of the active workspace's list) is on the
\* workspace that is active when the pass activates it.
C20_TabActivationOnActiveWorkspace ==
    last.op = "idle" =>
        \A w \in last.activated : ~Pinned(w) => wsOf[w] = last.ws

\* a pass has just activated a window that is not bottom-pinned while a
\* window that is neither minimized nor bottom-pinned was on another
\* workspace
C20_Witness ==
    /\ last.op = "idle"
    /\ \E w \in last.activated : ~Pinned(w)
    /\ \E v \in Windows :
          wsOf[v] # last.ws /\ ~minimized[v] /\ ~Pinned(v)

(***************************************************************************)
(* The title specification: one window of the trusted client whose title   *)
(* is edited one character at a time, so that every title of at most       *)
(* MaxLen characters of Alphabet is decoded.                               *)
(***************************************************************************)
Alphabet == {"@", "!", ";", "B", "T", "t", " ", "1"}

InitTitle ==
    /\ InitProgram
    /\ InitObservation
    /\ InitEnvironment
    /\ isX11 = FALSE
    /\ alive = {"w1"}
    /\ stack = <<"w1">>
    /\ minimized = [w \in Windows |-> FALSE]

TypeChar(w, c) ==
    /\ title[w] # Null
    /\ Len(title[w]) < MaxLen
    /\ TitleChanged(w, Append(title[w], c))

Backspace(w) ==
    /\ title[w] # Null
    /\ title[w] # << >>
    /\ TitleChanged(w, SubSeq(title[w], 1, Len(title[w]) - 1))

\* the title is set where there was none, or removed
ToggleTitle(w) ==
    \/ title[w] = Null /\ TitleChanged(w, << >>)
    \/ title[w] = << >> /\ TitleChanged(w, Null)

NextTitle ==
    \/ AddWindow(WindowHandle("w1"))
    \/ \E c \in Alphabet : TypeChar("w1", c)
    \/ Backspace("w1")
    \/ ToggleTitle("w1")
    \/ IdleRun

SpecTitle == InitTitle /\ [][NextTitle]_vars

\* the flag field of a title: what follows the marker, in upper case
FlagField(t) ==
    IF t = Null THEN << >>
    ELSE LET e == effectiveTitle(t)
             p == search(e, <<"@", "!">>)
         IN  IF p = -1 THEN << >>
             ELSE toUpperCase(SubSeq(e, p + 3, Len(e)))

\* the position of the last c in f, 0 when there is none
LastIndexOf(f, c) ==
    LET at == {i \in 1..Len(f) : f[i] = c}
    IN  IF at = {} THEN 0 ELSE CHOOSE i \in at : \A j \in at : j <= i

\* C10: no controller has pinBottom and pinTop both true, and when the flag
\* field of the window's title holds both B and T the letter that occurs
\* last decides which of the two is true.
C10_PinsExclusiveLastWins ==
    \A w \in Windows : \A i \in 1..Len(ctl[w]) :
        LET r == ctl[w][i]
            b == LastIndexOf(FlagField(title[w]), "B")
            t == LastIndexOf(FlagField(title[w]), "T")
        IN  /\ ~(r.keepAtBottom /\ r.keepAtTop)
            /\ (b > 0 /\ t > 0) =>
                   /\ r.keepAtBottom = (b > t)
                   /\ r.keepAtTop = (t > b)

\* a controller has decoded a title whose flag field holds T and then B
C10_Witness ==
    /\ Len(ctl["w1"]) > 0
    /\ LastIndexOf(FlagField(title["w1"]), "T") > 0
    /\ LastIndexOf(FlagField(title["w1"]), "B")
           > LastIndexOf(FlagField(title["w1"]), "T")
    /\ ctl["w1"][1].keepAtBottom

HasMarker(t) == search(t, <<"@", "!">>) # -1
EndsInSpace(t) == t # << >> /\ t[Len(t)] = " "

\* the directive a controller stores
DirectiveOf(r) ==
    [x |-> r.x, y |-> r.y, keepAtBottom |-> r.keepAtBottom,
     keepAtTop |-> r.keepAtTop, showInAllDesktops |-> r.showInAllDesktops,
     hideFromWindowList |-> r.hideFromWindowList, fixed |-> r.fixed]

\* C11 as stated: for every title that does not contain the marker "@!",
\* the decoded directive is the empty one: no position, every flag false.
C11_NoMarkerDecodesEmpty ==
    \A w \in Windows : \A i \in 1..Len(ctl[w]) :
        (title[w] # Null /\ ~HasMarker(title[w])) =>
            DirectiveOf(ctl[w][i]) = EmptyDirective

\* C11 amended: for every title that does not contain the marker "@!" and
\* does not end in a space, the decoded directive is the empty one.
C11_NoMarkerNoTrailingSpaceDecodesEmpty ==
    \A w \in Windows : \A i \in 1..Len(ctl[w]) :
        (title[w] # Null /\ ~HasMarker(title[w]) /\ ~EndsInSpace(title[w]))
            => DirectiveOf(ctl[w][i]) = EmptyDirective

\* a controller has decoded a title without the marker that holds a flag
\* letter, one character of the marker and a space that is not the last
\* character
C11_Witness ==
    /\ Len(ctl["w1"]) > 0
    /\ title["w1"] # Null
    /\ ~HasMarker(title["w1"]) /\ ~EndsInSpace(title["w1"])
    /\ \E i, j, k \in 1..Len(title["w1"]) :
          /\ title["w1"][i] = "B"
          /\ title["w1"][j] = "@"
          /\ title["w1"][k] = " "

\* the coordinate field as the documentation defines it: what follows the
\* first marker, up to the next ";" if there is one
FieldAfterMarker(t) ==
    LET rest == SubSeq(t, search(t, <<"@", "!">>) + 3, Len(t))
        q == search(rest, <<";">>)
    IN  IF q = -1 THEN rest ELSE SubSeq(rest, 1, q)

\* C18: for every title that contains the marker (and does not fall under
\* the trailing-space convention), x and y are the integers parsed from the
\* first two comma-separated tokens of the text between the first marker
\* and the next ";" after it; a ";" before the marker changes nothing.
C18_FieldEndsAtNextSemicolon ==
    \A w \in Windows : \A i \in 1..Len(ctl[w]) :
        (title[w] # Null /\ HasMarker(title[w]) /\ ~EndsInSpace(title[w]))
            => LET tokens == split(FieldAfterMarker(title[w]), ",")
               IN  /\ ctl[w][i].x = parseIntAt(tokens, 1)
                   /\ ctl[w][i].y = parseIntAt(tokens, 2)

(***************************************************************************)
(* The reaction specification: one window of the trusted client, with one  *)
(* controller or two, receives the four window-level events from outside:  *)
(* the user raises it, moves it or toggles its always-above state, and the *)
(* client changes its title among titles that ask for a fixed position.    *)
(***************************************************************************)
ReactTitles ==
    {<<"@", "!", "F">>, <<"@", "!", "B", "F">>,
     <<"@", "!", "1", ",", "2", "F">>, <<"@", "!", "2", ",", "1", "F">>}
Positions == {<<0, 0>>, <<1, 2>>}

\* a step that is the reaction to a window-level event
ObserveReaction(S, op) ==
    /\ last' = [NoLast EXCEPT !.op = op, !.kinds = Kinds(S.cmds),
                              !.overflow = S.overflow]
    /\ pendingInfo' = IF S.sources = {} THEN NoInfo
                      ELSE Absorb(pendingInfo, S.trig)
    /\ host' = host
    /\ owed' = owed

\* the client sets the window's title: notify::title
TitleEvent(w, t) ==
    /\ w \in alive
    /\ t # title[w]
    /\ \E S \in {emitNotifyTitle([World EXCEPT !.title[w] = t], w, 1)} :
           Commit(S) /\ ObserveReaction(S, "title")

\* the window is raised from outside the program: raised
RaisedEvent(w) ==
    /\ w \in alive
    /\ \E S \in {raise(World, w)} :
           Commit(S) /\ ObserveReaction(S, "raised")

\* the window is moved from outside the program: position-changed
PositionEvent(w, p) ==
    /\ w \in alive
    /\ p # pos[w]
    /\ \E S \in {emitPositionChanged([World EXCEPT !.pos[w] = p], w, 1, 1)} :
           Commit(S) /\ ObserveReaction(S, "position")

\* the window's always-above state is toggled from outside the program:
\* notify::above
AboveEvent(w) ==
    /\ w \in alive
    /\ \E S \in {emitNotifyAbove([World EXCEPT !.above[w] = ~above[w]],
                                 w, 1)} :
           Commit(S) /\ ObserveReaction(S, "above")

InitReact ==
    /\ InitProgram
    /\ InitObservation
    /\ InitEnvironment
    /\ isX11 = FALSE
    /\ alive = {"w1", "w3"}
    /\ stack = <<"w1", "w3">>
    /\ minimized = [w \in Windows |-> FALSE]

NextReact ==
    \/ AddWindow(WindowHandle("w1"))
    \/ \E t \in ReactTitles : TitleEvent("w1", t)
    \/ \E w \in {"w1", "w3"} : RaisedEvent(w)
    \/ \E p \in Positions : PositionEvent("w1", p)
    \/ AboveEvent("w1")
    \/ IdleRun

SpecReact == InitReact /\ [][NextReact]_vars

\* the coordinate field of the title does not parse as two integers
Unparsed(t) ==
    /\ t # Null /\ HasMarker(t) /\ ~EndsInSpace(t)
    /\ \/ parseIntAt(split(FieldAfterMarker(t), ","), 1) = NaN
       \/ parseIntAt(split(FieldAfterMarker(t), ","), 2) = NaN

\* C14: while the title holds the marker and a coordinate field that does
\* not parse as two integers, neither the reaction to a title change nor
\* the reaction to a move issues a move command, fixedPosition or not
\* (stated for a window with one controller).
C14_NoMoveWithoutPosition ==
    (last.op \in {"title", "position"} /\ Len(ctl["w1"]) = 1
        /\ Unparsed(title["w1"]))
        => "move_frame" \notin last.kinds

\* C17: the chain of reactions to one event ends without any handler
\* nested beyond the engine's limit, and afterwards a window whose
\* controller has fixedPosition and a parsed position is at that position.
C17_ReactionsTerminate ==
    /\ ~last.overflow
    /\ \A w \in Windows : \A i \in 1..Len(ctl[w]) :
          (ctl[w][i].fixed /\ ctl[w][i].x[1] = "int"
              /\ ctl[w][i].y[1] = "int")
              => pos[w] = <<ctl[w][i].x[2], ctl[w][i].y[2]>>

=============================================================================
